---- MODULE Spec2Model ----
(***************************************************************************)
(* Model of the live audio session controller of                          *)
(* src/components/LiveView.tsx: the React state (status, isActive,        *)
(* errorMessage), the refs that hold the device and session handles, the  *)
(* playback cursor and the set of scheduled sources, together with the    *)
(* handlers that mutate them (startSession, stopSession, the four         *)
(* callbacks handed to ai.live.connect, the unmount cleanup).             *)
(*                                                                         *)
(* Every startSession invocation creates its own input context, output    *)
(* context, microphone stream and remote session, which its callbacks     *)
(* capture as locals; they are identified by the invocation number        *)
(* 1..MaxStarts, and 0 stands for a null ref.  Every inbound message is   *)
(* identified by its arrival number 1..MaxMsgs, which also names the      *)
(* AudioBufferSourceNode that the message creates.  Every frame that a     *)
(* framing processor delivers is identified by its capture number.  Time  *)
(* is the output context's currentTime, counted in ticks.                 *)
(*                                                                         *)
(* The chat view of src/components/ChatView.tsx is modelled next to it:    *)
(* its React state (messages, inputValue, selectedImage, isLoading) and    *)
(* handleSendMessage, before and after its await of generateText.          *)
(***************************************************************************)
EXTENDS Integers, Sequences, FiniteSets, TLC

\* startSession invocations and inbound messages that get an identity
MaxStarts == 2
MaxMsgs == 3
\* ticks of an output context's clock, and ticks of a chunk's duration
MaxClock == 3
MaxDur == 2
\* inbound messages in the runs that restart the session
SessionMsgs == 1
\* startSession invocations in the runs that follow the playback of one session
PlaybackStarts == 1
\* startSession invocations and inbound messages in the runs where a device raises
FaultStarts == 1
FaultMsgs == 1

\* frames that the framing processor delivers, and startSession invocations and
\* inbound messages in the runs that follow them
MaxFrames == 3
CaptureStarts == 1
CaptureMsgs == 3

\* inbound messages in the runs where every scheduled chunk plays to its end
CompletionMsgs == 2

\* startSession invocations in the runs that only start, stop and restart, and
\* frames that the framing processors deliver in them
RestartStarts == 3
RestartFrames == 1

\* invocations of handleSendMessage in the runs of the chat view
MaxSends == 3

Ids == 1..RestartStarts
MsgIds == 1..MaxMsgs

\* the durations of the chunks A (0.5 s) and B (0.3 s), in ticks of 0.1 s
ChunkDurs == {5, 3}

\* what message.serverContent.modelTurn.parts[0].inlineData.data holds
AudioKinds == {"none", "bad64", "badpcm", "ok"}

\* what the textarea holds: nothing, white space only, or a text
Texts == {"", "blank", "text"}
\* what selectedImage holds: null, a data URI with a base64 part, or a reader
\* result that the pattern of handleSendMessage does not match
Images == {"null", "dataUri", "other"}

\* the release step of stopSession at which the device raises
NoFault == {"none"}
Faults == {"none", "close", "track", "source", "processor", "inputClose",
           "srcStop", "outputClose"}

VARIABLES
    mounted,             \* the component is mounted
    status,              \* useState status
    isActive,            \* useState isActive
    errorMessage,        \* useState errorMessage ("null" or the text's tag)
    inputContextRef,
    outputContextRef,
    streamRef,
    sourceRef,
    processorRef,
    sessionRef,
    nextStartTimeRef,
    scheduledSourcesRef,
    starts,              \* number of startSession invocations so far
    pc,                  \* where each startSession invocation stands
    inputCtx,            \* state of the AudioContext({sampleRate: 16000}) of each invocation
    outputCtx,           \* state of the AudioContext({sampleRate: 24000}) of each invocation
    clock,               \* outputCtx.currentTime of each invocation
    stream,              \* state of the MediaStream of each invocation
    source,              \* state of the MediaStreamAudioSourceNode of each invocation
    processor,           \* state of the ScriptProcessorNode of each invocation
    session,             \* state of the remote session of each invocation
    promise,             \* state of sessionPromise of each invocation
    msgs,                \* the inbound messages, in arrival order
    sources,             \* the AudioBufferSourceNode created for each message
    captured,            \* number of audioprocess events delivered so far
    thens,               \* frames whose sessionPromise.then reaction has not run yet
    sent,                \* frames handed to session.sendRealtimeInput, in order
    messages,            \* ChatView: useState messages
    inputValue,          \* ChatView: useState inputValue
    selectedImage,       \* ChatView: useState selectedImage
    isLoading,           \* ChatView: useState isLoading
    requests,            \* ChatView: the generateText calls that have not settled
    invoked              \* ChatView: number of handleSendMessage invocations so far

reactVars == <<mounted, status, isActive, errorMessage>>
refVars == <<inputContextRef, outputContextRef, streamRef, sourceRef, processorRef,
             sessionRef, nextStartTimeRef, scheduledSourcesRef>>
deviceVars == <<inputCtx, outputCtx, clock, stream, source, processor>>
remoteVars == <<session, promise>>
captureVars == <<captured, thens, sent>>
chatVars == <<messages, inputValue, selectedImage, isLoading, requests, invoked>>
liveVars == <<reactVars, refVars, starts, pc, deviceVars, remoteVars, msgs, sources,
              captureVars>>
vars == <<liveVars, chatVars>>

\* a source carries its context, start time and duration while it is started;
\* once it is stopped or has ended nothing reads them any more
NoSource == [ctx |-> 0, start |-> 0, dur |-> 0, st |-> "none"]
StoppedSource == [ctx |-> 0, start |-> 0, dur |-> 0, st |-> "stopped"]
EndedSource == [ctx |-> 0, start |-> 0, dur |-> 0, st |-> "ended"]

\* a message whose handler has returned; nothing reads its payload any more, and
\* intr tells whether the handler ran its interruption branch
DoneMsg(intr) ==
    [audio |-> "none", dur |-> 0, interrupted |-> intr, ctx |-> 0, st |-> "done"]

\* a message whose audio payload raised in the try block and was dropped by the catch
DroppedMsg(intr) ==
    [audio |-> "none", dur |-> 0, interrupted |-> intr, ctx |-> 0, st |-> "dropped"]

\* the message that the chat view shows at first
WelcomeMsg == [role |-> "model", text |-> "welcome", image |-> "null", isError |-> FALSE]

Max(a, b) == IF a < b THEN b ELSE a

\* a state update of an unmounted component is dropped by React
SetState(cur, v) == IF mounted THEN v ELSE cur

\* an event loop that runs other tasks while a handler awaits decodeAudioData
Awaiting_Suspended == FALSE

\* a handler of onmessage stands at its await of decodeAudioData.  The decoder
\* builds the buffer from its inputs without suspending, so the promise it
\* returns is already settled and the rest of the handler is a microtask of the
\* task that delivered the message: no other task starts before it has run
Awaiting == \E m \in 1..Len(msgs) : msgs[m].st = "decoding"

Init ==
    /\ mounted = TRUE
    /\ status = "disconnected"
    /\ isActive = FALSE
    /\ errorMessage = "null"
    /\ inputContextRef = 0
    /\ outputContextRef = 0
    /\ streamRef = 0
    /\ sourceRef = 0
    /\ processorRef = 0
    /\ sessionRef = 0
    /\ nextStartTimeRef = 0
    /\ scheduledSourcesRef = {}
    /\ starts = 0
    /\ pc = [i \in Ids |-> "none"]
    /\ inputCtx = [i \in Ids |-> "none"]
    /\ outputCtx = [i \in Ids |-> "none"]
    /\ clock = [i \in Ids |-> 0]
    /\ stream = [i \in Ids |-> "none"]
    /\ source = [i \in Ids |-> "none"]
    /\ processor = [i \in Ids |-> "none"]
    /\ session = [i \in Ids |-> "none"]
    /\ promise = [i \in Ids |-> "none"]
    /\ msgs = <<>>
    /\ sources = [m \in MsgIds |-> NoSource]
    /\ captured = 0
    /\ thens = [i \in Ids |-> <<>>]
    /\ sent = [i \in Ids |-> <<>>]
    /\ messages = <<WelcomeMsg>>
    /\ inputValue = ""
    /\ selectedImage = "null"
    /\ isLoading = FALSE
    /\ requests = <<>>
    /\ invoked = 0

(***************************************************************************)
(* stopSession.  Its release steps run in order; the steps that are not    *)
(* wrapped in try/catch abort the function when they raise.               *)
(***************************************************************************)

\* the step of stopSession that raises out of the function, 99 if none does
AbortAt(fail) ==
    CASE fail = "track" /\ streamRef # 0 -> 2
      [] fail = "source" /\ sourceRef # 0 -> 3
      [] fail = "processor" /\ processorRef # 0 -> 4
      [] fail = "inputClose" /\ inputContextRef # 0 -> 5
      [] fail = "outputClose" /\ outputContextRef # 0 -> 7
      [] OTHER -> 99

\* step k of stopSession runs to its end
StepDone(fail, k) == k < AbortAt(fail)

Release(tbl, ref, done, v) ==
    IF done /\ ref # 0 THEN [tbl EXCEPT ![ref] = v] ELSE tbl

\* a release step that leaves its ref set
Nulled_Kept(ref, done) == ref

\* xRef.current = null, when the step before it ran to its end
Nulled(ref, done) == IF done THEN 0 ELSE ref

\* a stop loop that stops nothing
Stopped_Skipped(tbl, s) == tbl

\* src.stop() on every source of the set s, errors swallowed
Stopped(tbl, s) ==
    [m \in MsgIds |-> IF m \in s THEN StoppedSource ELSE tbl[m]]

\* a clear() that leaves the set as it is
clear_Kept(s) == s

\* scheduledSourcesRef.current.clear()
clear(s) == {}

\* a source that is started but not put into the set
add_Skipped(s, m) == s

\* scheduledSourcesRef.current.add(source)
add(s, m) == s \cup {m}

\* an onended that leaves the source in the set
delete_Kept(s, m) == s

\* scheduledSourcesRef.current.delete(source)
delete(s, m) == s \ {m}

\* session.close(): an open session starts closing, its onclose comes later
Closed(tbl, ref, done) ==
    IF done /\ ref # 0 /\ tbl[ref] = "open" THEN [tbl EXCEPT ![ref] = "closing"] ELSE tbl

\* stopSession, called when the sessions are in the states sess
stopSession(fail, finalStatus, sess) ==
    \* 1. Close API Session
    /\ session' = Closed(sess, sessionRef, fail # "close")
    /\ sessionRef' = 0
    \* 2. Stop Microphone Stream
    /\ stream' = Release(stream, streamRef, StepDone(fail, 2), "stopped")
    /\ streamRef' = Nulled(streamRef, StepDone(fail, 2))
    \* 3. Disconnect Input Nodes
    /\ source' = Release(source, sourceRef, StepDone(fail, 3), "disconnected")
    /\ sourceRef' = Nulled(sourceRef, StepDone(fail, 3))
    /\ processor' = Release(processor, processorRef, StepDone(fail, 4), "disconnected")
    /\ processorRef' = Nulled(processorRef, StepDone(fail, 4))
    /\ inputCtx' = Release(inputCtx, inputContextRef, StepDone(fail, 5), "closed")
    /\ inputContextRef' = Nulled(inputContextRef, StepDone(fail, 5))
    \* 4. Stop Output Audio
    /\ sources' = IF StepDone(fail, 6) /\ fail # "srcStop"
                   THEN Stopped(sources, scheduledSourcesRef) ELSE sources
    /\ scheduledSourcesRef' = IF StepDone(fail, 6) THEN clear(scheduledSourcesRef)
                                                   ELSE scheduledSourcesRef
    /\ outputCtx' = Release(outputCtx, outputContextRef, StepDone(fail, 7), "closed")
    /\ outputContextRef' = Nulled(outputContextRef, StepDone(fail, 7))
    /\ isActive' = IF StepDone(fail, 8) THEN SetState(isActive, FALSE) ELSE isActive
    /\ status' = IF StepDone(fail, 8) THEN SetState(status, finalStatus) ELSE status
    /\ nextStartTimeRef' = IF StepDone(fail, 8) THEN 0 ELSE nextStartTimeRef

(***************************************************************************)
(* The control of the view and the unmount cleanup.                        *)
(***************************************************************************)

\* the control never disabled: a click while connecting starts a second session
CanStart_NotDisabled == mounted /\ ~isActive

\* the control invokes startSession: it is not disabled and shows Start
CanStart == mounted /\ status # "connecting" /\ ~isActive

\* the control invokes stopSession: it is not disabled and shows Stop
CanStop == mounted /\ status # "connecting" /\ isActive

\* onClick while isActive
ClickStop(F) ==
    /\ ~Awaiting
    /\ CanStop
    /\ \E fail \in F : stopSession(fail, "disconnected", session)
    /\ UNCHANGED <<mounted, errorMessage, starts, pc, clock, promise, msgs>>
    /\ UNCHANGED captureVars
    /\ UNCHANGED chatVars

\* useEffect cleanup
Unmount(F) ==
    /\ ~Awaiting
    /\ mounted
    /\ mounted' = FALSE
    /\ \E fail \in F : stopSession(fail, "disconnected", session)
    /\ UNCHANGED <<errorMessage, starts, pc, clock, promise, msgs>>
    /\ UNCHANGED captureVars
    /\ UNCHANGED chatVars

(***************************************************************************)
(* startSession, up to its await of getUserMedia, and from there on.       *)
(***************************************************************************)

\* onClick while not isActive: startSession up to the await; the user starts at
\* most S sessions
ClickStart(S) ==
    /\ ~Awaiting
    /\ CanStart
    /\ starts < S
    /\ LET i == starts + 1 IN
        /\ starts' = i
        /\ errorMessage' = "null"
        /\ status' = "connecting"
        /\ inputCtx' = [inputCtx EXCEPT ![i] = "running"]
        /\ outputCtx' = [outputCtx EXCEPT ![i] = "running"]
        /\ inputContextRef' = i
        /\ outputContextRef' = i
        /\ pc' = [pc EXCEPT ![i] = "getUserMedia"]
    /\ UNCHANGED <<mounted, isActive, streamRef, sourceRef, processorRef, sessionRef,
                   nextStartTimeRef, scheduledSourcesRef, clock, stream, source,
                   processor, remoteVars, msgs, sources>>
    /\ UNCHANGED captureVars
    /\ UNCHANGED chatVars

\* the catch of startSession
StartFailed ==
    /\ errorMessage' = SetState(errorMessage, "start")
    /\ status' = SetState(status, "error")

\* getUserMedia resolves; ai.live.connect returns sessionPromise or throws
MicGranted(i) ==
    /\ ~Awaiting
    /\ pc[i] = "getUserMedia"
    /\ pc' = [pc EXCEPT ![i] = "done"]
    /\ stream' = [stream EXCEPT ![i] = "live"]
    /\ streamRef' = i
    /\ \/ /\ session' = [session EXCEPT ![i] = "connecting"]
          /\ promise' = [promise EXCEPT ![i] = "pending"]
          /\ UNCHANGED <<errorMessage, status>>
       \/ /\ promise' = [promise EXCEPT ![i] = "threw"]
          /\ StartFailed
          /\ UNCHANGED session
    /\ UNCHANGED <<mounted, isActive, inputContextRef, outputContextRef, sourceRef,
                   processorRef, sessionRef, nextStartTimeRef, scheduledSourcesRef,
                   starts, inputCtx, outputCtx, clock, source, processor, msgs,
                   sources>>
    /\ UNCHANGED captureVars
    /\ UNCHANGED chatVars

\* getUserMedia rejects
MicDenied(i) ==
    /\ ~Awaiting
    /\ pc[i] = "getUserMedia"
    /\ pc' = [pc EXCEPT ![i] = "done"]
    /\ StartFailed
    /\ UNCHANGED <<mounted, isActive, refVars, starts, deviceVars, remoteVars, msgs,
                   sources>>
    /\ UNCHANGED captureVars
    /\ UNCHANGED chatVars

\* reactions that run last registered first
Reactions_Reversed(s, q) == s \o [k \in 1..Len(q) |-> q[Len(q) + 1 - k]]

\* the reactions q of a promise run in the order of their registration, each
\* handing its frame to session.sendRealtimeInput after the frames s
Reactions(s, q) == s \o q

\* sessionPromise.then(session => { sessionRef.current = session }), followed by
\* the reactions that onaudioprocess has registered since
PromiseResolved(i) ==
    /\ ~Awaiting
    /\ promise[i] = "pending"
    /\ session[i] = "open"
    /\ promise' = [promise EXCEPT ![i] = "resolved"]
    /\ sessionRef' = i
    /\ sent' = [sent EXCEPT ![i] = Reactions(sent[i], thens[i])]
    /\ thens' = [thens EXCEPT ![i] = <<>>]
    /\ UNCHANGED captured
    /\ UNCHANGED <<reactVars, inputContextRef, outputContextRef, streamRef, sourceRef,
                   processorRef, nextStartTimeRef, scheduledSourcesRef, starts, pc,
                   deviceVars, session, msgs, sources>>
    /\ UNCHANGED chatVars

\* sessionPromise ... .catch(err => ...)
PromiseRejected(i) ==
    /\ ~Awaiting
    /\ promise[i] = "pending"
    /\ session[i] \in {"connecting", "open"}
    /\ promise' = [promise EXCEPT ![i] = "rejected"]
    /\ errorMessage' = SetState(errorMessage, "connect")
    /\ status' = SetState(status, "error")
    /\ session' = IF session[i] = "connecting" THEN [session EXCEPT ![i] = "closed"]
                                                ELSE session
    /\ thens' = [thens EXCEPT ![i] = <<>>]
    /\ UNCHANGED <<captured, sent>>
    /\ UNCHANGED <<mounted, isActive, refVars, starts, pc, deviceVars, msgs, sources>>
    /\ UNCHANGED chatVars

(***************************************************************************)
(* The callbacks handed to ai.live.connect by invocation i.                *)
(***************************************************************************)

\* createMediaStreamSource / createScriptProcessor on a context that stopSession
\* has already closed may raise; on a running context they do not
NodeOutcomes(i) == IF inputCtx[i] = "running" THEN {TRUE} ELSE BOOLEAN

onopen(i) ==
    /\ ~Awaiting
    /\ session[i] = "connecting"
    /\ session' = [session EXCEPT ![i] = "open"]
    /\ status' = SetState(status, "connected")
    /\ isActive' = SetState(isActive, TRUE)
    /\ \E created \in NodeOutcomes(i) :
        IF created
        THEN /\ source' = [source EXCEPT ![i] = "connected"]
             /\ processor' = [processor EXCEPT ![i] = "connected"]
             /\ sourceRef' = i
             /\ processorRef' = i
        ELSE UNCHANGED <<source, processor, sourceRef, processorRef>>
    /\ UNCHANGED <<mounted, errorMessage, inputContextRef, outputContextRef, streamRef,
                   sessionRef, nextStartTimeRef, scheduledSourcesRef, starts, pc,
                   inputCtx, outputCtx, clock, stream, promise, msgs, sources>>
    /\ UNCHANGED captureVars
    /\ UNCHANGED chatVars

\* processor.onaudioprocess of invocation i: the frame is encoded and its send
\* is chained on sessionPromise; the reaction of a resolved promise is a
\* microtask of this task, that of a pending one waits for the settlement, that
\* of a rejected one never runs.  The processor delivers frames, at most K,
\* while it is connected and its context runs
onaudioprocess(i, K) ==
    /\ ~Awaiting
    /\ processor[i] = "connected"
    /\ inputCtx[i] = "running"
    /\ captured < K
    /\ captured' = captured + 1
    /\ sent' = IF promise[i] = "resolved"
               THEN [sent EXCEPT ![i] = Reactions(sent[i], <<captured + 1>>)]
               ELSE sent
    /\ thens' = IF promise[i] = "pending"
                THEN [thens EXCEPT ![i] = Append(thens[i], captured + 1)]
                ELSE thens
    /\ UNCHANGED <<reactVars, refVars, starts, pc, deviceVars, remoteVars, msgs,
                   sources>>
    /\ UNCHANGED chatVars

\* a start time that is always currentTime, also when the cursor is ahead of it
StartTime_Now(ctx) == clock[ctx]

\* a cursor that is not raised to currentTime
StartTime_Stale(ctx) == nextStartTimeRef

\* source.start(nextStartTimeRef.current) after the cursor was raised to currentTime
StartTime(ctx) == Max(nextStartTimeRef, clock[ctx])

\* the source that a decoded chunk of duration d gets on context ctx
Scheduled(ctx, d) ==
    [ctx |-> ctx, start |-> StartTime(ctx), dur |-> d, st |-> "started"]

\* onmessage up to its await of decodeAudioData, or to its end when it has none;
\* at most M messages arrive
onmessage(i, audio, d, intr, M) ==
    /\ ~Awaiting
    /\ session[i] \in {"open", "closing"}
    /\ Len(msgs) < M
    /\ LET ctx == outputContextRef
           awaits == ctx # 0 /\ audio \in {"ok", "badpcm"}
           msg == [audio |-> audio, dur |-> d, interrupted |-> intr, ctx |-> ctx,
                   st |-> "decoding"]
       IN
        /\ msgs' = Append(msgs, CASE awaits -> msg
                                  [] ctx # 0 /\ audio = "bad64" -> DroppedMsg(intr)
                                  [] ctx # 0 -> DoneMsg(intr)
                                  [] OTHER -> DoneMsg(FALSE))
        /\ IF ctx # 0 /\ ~awaits /\ intr
           THEN /\ sources' = Stopped(sources, scheduledSourcesRef)
                /\ scheduledSourcesRef' = clear(scheduledSourcesRef)
                /\ nextStartTimeRef' = 0
           ELSE UNCHANGED <<sources, scheduledSourcesRef, nextStartTimeRef>>
    /\ UNCHANGED <<reactVars, inputContextRef, outputContextRef, streamRef, sourceRef,
                   processorRef, sessionRef, starts, pc, deviceVars, remoteVars>>
    /\ UNCHANGED captureVars
    /\ UNCHANGED chatVars

\* whether the try block of onmessage runs to its end: decodeAudioData rejects a
\* malformed chunk; createBufferSource on a context that stopSession has closed
\* in the meantime may raise
TryOutcomes(msg) ==
    CASE msg.audio # "ok" -> {FALSE}
      [] outputCtx[msg.ctx] = "running" -> {TRUE}
      [] OTHER -> BOOLEAN

\* a cursor that is raised to currentTime before the try block has succeeded
CursorAfter_Early(msg, played) == StartTime(msg.ctx) + msg.dur

\* a cursor that is raised to currentTime but not advanced by the duration
CursorAfter_NoAdvance(msg, played) ==
    IF played THEN StartTime(msg.ctx) ELSE nextStartTimeRef

\* nextStartTimeRef.current when the try block of onmessage is left
CursorAfter(msg, played) ==
    IF played THEN StartTime(msg.ctx) + msg.dur ELSE nextStartTimeRef

\* a handler that applies the interruption before it schedules the chunk
decoded_InterruptFirst(m) ==
    /\ m \in 1..Len(msgs)
    /\ msgs[m].st = "decoding"
    /\ \E played \in TryOutcomes(msgs[m]) :
        LET msg == msgs[m]
            base == IF msg.interrupted THEN Stopped(sources, scheduledSourcesRef)
                                       ELSE sources
            set == IF msg.interrupted THEN {} ELSE scheduledSourcesRef
            cursor == IF msg.interrupted THEN 0 ELSE nextStartTimeRef
            at == Max(cursor, clock[msg.ctx])
        IN
         /\ msgs' = [msgs EXCEPT ![m] = IF played THEN DoneMsg(msg.interrupted)
                                                   ELSE DroppedMsg(msg.interrupted)]
         /\ sources' = IF played
                        THEN [base EXCEPT ![m] = [ctx |-> msg.ctx, start |-> at,
                                                  dur |-> msg.dur, st |-> "started"]]
                        ELSE base
         /\ scheduledSourcesRef' = IF played THEN add(set, m) ELSE set
         /\ nextStartTimeRef' = IF played THEN at + msg.dur ELSE cursor
    /\ UNCHANGED <<reactVars, inputContextRef, outputContextRef, streamRef, sourceRef,
                   processorRef, sessionRef, starts, pc, deviceVars, remoteVars>>
    /\ UNCHANGED captureVars
    /\ UNCHANGED chatVars

\* onmessage from the await of decodeAudioData to its end
decoded(m) ==
    /\ m \in 1..Len(msgs)
    /\ msgs[m].st = "decoding"
    /\ \E played \in TryOutcomes(msgs[m]) :
        LET msg == msgs[m]
            tbl == IF played THEN [sources EXCEPT ![m] = Scheduled(msg.ctx, msg.dur)]
                             ELSE sources
            set == IF played THEN add(scheduledSourcesRef, m) ELSE scheduledSourcesRef
            cursor == CursorAfter(msg, played)
        IN
         /\ msgs' = [msgs EXCEPT ![m] = IF played THEN DoneMsg(msg.interrupted)
                                                   ELSE DroppedMsg(msg.interrupted)]
         /\ IF msg.interrupted
            THEN /\ sources' = Stopped(tbl, set)
                 /\ scheduledSourcesRef' = clear(set)
                 /\ nextStartTimeRef' = 0
            ELSE /\ sources' = tbl
                 /\ scheduledSourcesRef' = set
                 /\ nextStartTimeRef' = cursor
    /\ UNCHANGED <<reactVars, inputContextRef, outputContextRef, streamRef, sourceRef,
                   processorRef, sessionRef, starts, pc, deviceVars, remoteVars>>
    /\ UNCHANGED captureVars
    /\ UNCHANGED chatVars

onclose(i, F) ==
    /\ ~Awaiting
    /\ session[i] \in {"connecting", "open", "closing", "errored"}
    /\ \E fail \in F :
        stopSession(fail, "disconnected", [session EXCEPT ![i] = "closed"])
    /\ UNCHANGED <<mounted, errorMessage, starts, pc, clock, promise, msgs>>
    /\ UNCHANGED captureVars
    /\ UNCHANGED chatVars

\* an onerror that connects again instead of ending in error
onerror_Retry(i, F) ==
    /\ ~Awaiting
    /\ session[i] \in {"connecting", "open", "closing"}
    /\ errorMessage' = SetState(errorMessage, "connection")
    /\ \E fail \in F :
          stopSession(fail, "connecting", [session EXCEPT ![i] = "connecting"])
    /\ UNCHANGED <<mounted, starts, pc, clock, promise, msgs>>
    /\ UNCHANGED captureVars
    /\ UNCHANGED chatVars

onerror(i, F) ==
    /\ ~Awaiting
    /\ session[i] \in {"connecting", "open", "closing"}
    /\ errorMessage' = SetState(errorMessage, "connection")
    /\ \E fail \in F : stopSession(fail, "error", [session EXCEPT ![i] = "errored"])
    /\ UNCHANGED <<mounted, starts, pc, clock, promise, msgs>>
    /\ UNCHANGED captureVars
    /\ UNCHANGED chatVars

(***************************************************************************)
(* The output device: its clock, and the ended event of a source.          *)
(***************************************************************************)

\* an output context whose clock can still be read or can still end a source
Observed(i) ==
    \/ outputContextRef = i
    \/ \E m \in 1..Len(msgs) : msgs[m].st = "decoding" /\ msgs[m].ctx = i
    \/ \E m \in MsgIds : sources[m].st = "started" /\ sources[m].ctx = i

\* a source of context i is started and has not reached its end
Playing(i) ==
    \E m \in MsgIds : /\ sources[m].st = "started"
                       /\ sources[m].ctx = i
                       /\ clock[i] < sources[m].start + sources[m].dur

\* currentTime advances: by MaxClock ticks, and for as long as a source plays
Tick(i) ==
    /\ ~Awaiting
    /\ outputCtx[i] = "running"
    /\ Observed(i)
    /\ clock[i] < MaxClock \/ Playing(i)
    /\ clock' = [clock EXCEPT ![i] = clock[i] + 1]
    /\ UNCHANGED <<reactVars, refVars, starts, pc, inputCtx, outputCtx, stream, source,
                   processor, remoteVars, msgs, sources>>
    /\ UNCHANGED captureVars
    /\ UNCHANGED chatVars

\* source.onended = () => { scheduledSourcesRef.current.delete(source) }, for a
\* source that plays to its end; the ended event of a stopped source deletes a
\* source that the stop loop's clear() has already removed, and is left out
onended(m) ==
    /\ ~Awaiting
    /\ sources[m].st = "started"
    /\ outputCtx[sources[m].ctx] = "running"
    /\ clock[sources[m].ctx] >= sources[m].start + sources[m].dur
    /\ sources' = [sources EXCEPT ![m] = EndedSource]
    /\ scheduledSourcesRef' = delete(scheduledSourcesRef, m)
    /\ UNCHANGED <<reactVars, inputContextRef, outputContextRef, streamRef, sourceRef,
                   processorRef, sessionRef, nextStartTimeRef, starts, pc, deviceVars,
                   remoteVars, msgs>>
    /\ UNCHANGED captureVars
    /\ UNCHANGED chatVars

\* the payloads of an inbound message
Payloads ==
    {<<a, d, b>> \in AudioKinds \X (0..MaxDur) \X BOOLEAN : (a = "ok") <=> (d > 0)}

\* the steps of the program and of its environment: the devices raise the
\* faults F, the user starts at most S sessions, at most M messages arrive
Step(F, S, M) ==
    \/ ClickStart(S)
    \/ ClickStop(F)
    \/ Unmount(F)
    \/ \E i \in Ids : MicGranted(i)
    \/ \E i \in Ids : MicDenied(i)
    \/ \E i \in Ids : PromiseResolved(i)
    \/ \E i \in Ids : PromiseRejected(i)
    \/ \E i \in Ids : onopen(i)
    \/ \E i \in Ids, p \in Payloads : onmessage(i, p[1], p[2], p[3], M)
    \/ \E m \in MsgIds : decoded(m)
    \/ \E i \in Ids : onclose(i, F)
    \/ \E i \in Ids : onerror(i, F)
    \/ \E i \in Ids : Tick(i)
    \/ \E m \in MsgIds : onended(m)

\* the session is started, stopped and restarted; no release step raises
Next == Step(NoFault, MaxStarts, SessionMsgs)

Spec == Init /\ [][Next]_vars

\* one session and the playback of its inbound messages; no release step raises
NextPlayback == Step(NoFault, PlaybackStarts, MaxMsgs)

SpecPlayback == Init /\ [][NextPlayback]_vars

\* a release step of stopSession may raise
NextFault == Step(Faults, FaultStarts, FaultMsgs)

SpecFault == Init /\ [][NextFault]_vars

\* the session is started, stopped and restarted while the microphone delivers
\* frames and no message arrives
NextRestart ==
    \/ \E i \in Ids : onaudioprocess(i, RestartFrames)
    \/ ClickStart(RestartStarts)
    \/ ClickStop(NoFault)
    \/ Unmount(NoFault)
    \/ \E i \in Ids : MicGranted(i)
    \/ \E i \in Ids : MicDenied(i)
    \/ \E i \in Ids : PromiseResolved(i)
    \/ \E i \in Ids : PromiseRejected(i)
    \/ \E i \in Ids : onopen(i)
    \/ \E i \in Ids : onclose(i, NoFault)
    \/ \E i \in Ids : onerror(i, NoFault)

SpecRestart == Init /\ [][NextRestart]_vars

\* a session that is neither stopped nor interrupted and does not fail: chunks
\* arrive and play; the output device keeps its clock running and delivers the
\* ended event of every source that has played to its end
NextCompletion ==
    \/ ClickStart(PlaybackStarts)
    \/ \E i \in Ids : MicGranted(i)
    \/ \E i \in Ids : onopen(i)
    \/ \E i \in Ids : PromiseResolved(i)
    \/ \E i \in Ids, d \in ChunkDurs : onmessage(i, "ok", d, FALSE, CompletionMsgs)
    \/ \E m \in MsgIds : decoded(m)
    \/ \E i \in Ids : Tick(i)
    \/ \E m \in MsgIds : onended(m)

SpecCompletion ==
    /\ Init
    /\ [][NextCompletion]_vars
    /\ \A i \in Ids : WF_vars(Tick(i))
    /\ \A m \in MsgIds : WF_vars(decoded(m)) /\ WF_vars(onended(m))

\* the microphone delivers frames while the session is started and stopped
NextCapture ==
    \/ Step(NoFault, CaptureStarts, CaptureMsgs)
    \/ \E i \in Ids : onaudioprocess(i, MaxFrames)

SpecCapture == Init /\ [][NextCapture]_vars
(***************************************************************************)
(* The chat view: its inputs, handleSendMessage up to its await of         *)
(* generateText, and from there on.                                        *)
(***************************************************************************)

\* inputValue.trim()
Trim(v) == IF v = "blank" THEN "" ELSE v

\* newUserMsg.image.match(/^data:(.+);base64,(.+)$/) yields the base64 data
HasData(img) == img = "dataUri"

\* onChange of the textarea
setInputValue(v) ==
    /\ v # inputValue
    /\ inputValue' = v
    /\ UNCHANGED <<messages, selectedImage, isLoading, requests, invoked>>
    /\ UNCHANGED liveVars

\* onloadend of the reader of handleImageSelect, and the button that removes
\* the image
setSelectedImage(img) ==
    /\ img # selectedImage
    /\ selectedImage' = img
    /\ UNCHANGED <<messages, inputValue, isLoading, requests, invoked>>
    /\ UNCHANGED liveVars

\* a guard that does not look at isLoading
Ignored_LoadingUnchecked == Trim(inputValue) = "" /\ selectedImage = "null"

\* the first line of handleSendMessage returns
Ignored == (Trim(inputValue) = "" /\ selectedImage = "null") \/ isLoading

\* handleSendMessage up to its await of generateText, invoked by the send button
\* or by the Enter key, at most N times
handleSendMessage(N) ==
    /\ invoked < N
    /\ invoked' = invoked + 1
    /\ IF Ignored
       THEN UNCHANGED <<messages, inputValue, selectedImage, isLoading, requests>>
       ELSE /\ messages' = Append(messages, [role |-> "user", text |-> inputValue,
                                             image |-> selectedImage, isError |-> FALSE])
            /\ inputValue' = ""
            /\ selectedImage' = "null"
            /\ isLoading' = TRUE
            /\ requests' = Append(requests, [text |-> inputValue,
                                             data |-> HasData(selectedImage)])
    /\ UNCHANGED liveVars

\* the sequence q without its element k
Without(q, k) == [j \in 1..(Len(q) - 1) |-> IF j < k THEN q[j] ELSE q[j + 1]]

\* handleSendMessage from its await of generateText on: the call k resolves (ok)
\* or rejects, the try or the catch appends a model message, finally clears
\* isLoading
generateTextSettled(k, ok) ==
    /\ k \in 1..Len(requests)
    /\ requests' = Without(requests, k)
    /\ messages' = Append(messages, [role |-> "model",
                                     text |-> IF ok THEN "response" ELSE "error",
                                     image |-> "null", isError |-> ~ok])
    /\ isLoading' = FALSE
    /\ UNCHANGED <<inputValue, selectedImage, invoked>>
    /\ UNCHANGED liveVars

\* the user types, picks and removes images and sends; every request settles
NextChat ==
    \/ \E v \in Texts : setInputValue(v)
    \/ \E img \in Images : setSelectedImage(img)
    \/ handleSendMessage(MaxSends)
    \/ \E k \in 1..MaxSends, ok \in BOOLEAN : generateTextSettled(k, ok)

SpecChat ==
    /\ Init
    /\ [][NextChat]_vars
    /\ WF_vars(\E k \in 1..MaxSends, ok \in BOOLEAN : generateTextSettled(k, ok))

(***************************************************************************)
(* Properties of the session state machine.                               *)
(***************************************************************************)

\* a step in which startSession is entered
StartInvoked == starts' = starts + 1

\* a step in which the user stops the session: the control, or leaving the view
UserStop == ClickStop(NoFault) \/ Unmount(NoFault)

\* C1: the status enters connected only from connecting, and once it is error or
\* disconnected no callback of the remote session and no settlement of
\* sessionPromise changes it: it is left only by a startSession invocation
\* (stopSession invoked by the user takes error to disconnected)
C1_StatusPath ==
    [][ /\ (status' = "connected" /\ status # "connected") => status = "connecting"
        /\ (status \in {"error", "disconnected"} /\ status' # status) =>
              \/ StartInvoked
              \/ UserStop /\ status' = "disconnected"
      ]_vars

C3_NoSessionAfterStop ==
    ~mounted => (sessionRef = 0 /\ \A i \in Ids : session[i] # "open")

(***************************************************************************)
(* Properties of stopSession.                                              *)
(***************************************************************************)

\* every ref is null, nothing is scheduled and the cursor is at 0
Cleared ==
    /\ sessionRef = 0
    /\ streamRef = 0
    /\ sourceRef = 0
    /\ processorRef = 0
    /\ inputContextRef = 0
    /\ outputContextRef = 0
    /\ scheduledSourcesRef = {}
    /\ nextStartTimeRef = 0

\* a step in which stopSession runs and nothing else is set after it
StopCall == UserStop \/ \E i \in Ids : onclose(i, NoFault)

\* C4: stopSession leaves the status disconnected and isActive false (of the
\* mounted component), every ref null, no source scheduled and the cursor at 0;
\* called in such a state, also before any startSession, it changes none of them
\* and releases nothing
C4_StopIdempotent ==
    [][ StopCall =>
          /\ Cleared'
          /\ mounted' => (status' = "disconnected" /\ ~isActive')
          /\ (Cleared /\ status = "disconnected" /\ ~isActive) =>
                UNCHANGED <<status, isActive, errorMessage, refVars, deviceVars,
                            sources, msgs, starts, pc, promise>>
      ]_vars

\* stopSession has run twice in a row: the user left the view after a stop, or
\* before any start
C4_Witness ==
    /\ ~mounted
    /\ Cleared
    /\ \/ starts = 0
       \/ \E i \in Ids : session[i] = "closing" /\ stream[i] = "stopped"

(***************************************************************************)
(* Properties of the playback scheduling.                                  *)
(***************************************************************************)

\* a step in which onmessage runs its interruption branch
Interrupts ==
    \/ \E i \in Ids, a \in {"none", "bad64"} :
          outputContextRef # 0 /\ onmessage(i, a, 0, TRUE, MaxMsgs)
    \/ \E m \in MsgIds : decoded(m) /\ msgs[m].interrupted

\* a step in which onmessage schedules the decoded chunk of message m
Enqueues(m) == decoded(m) /\ msgs[m].audio = "ok" /\ msgs'[m].st = "done"

\* C5: the interruption branch stops every source of the set, whether or not it
\* has reached its end, empties the set and puts the cursor at 0; the source
\* scheduled next starts at the current time of its context
C5_InterruptResets ==
    [][ /\ Interrupts =>
              /\ \A m \in scheduledSourcesRef : sources'[m].st = "stopped"
              /\ scheduledSourcesRef' = {}
              /\ nextStartTimeRef' = 0
        /\ \A m \in MsgIds :
              (Enqueues(m) /\ nextStartTimeRef = 0 /\ ~msgs[m].interrupted) =>
                 sources'[m].start = clock[msgs[m].ctx]
      ]_vars

\* a source was stopped by an interruption before its end (the output context is
\* still held), and a later chunk plays from the then current time
C5_Witness ==
    /\ outputContextRef # 0
    /\ \E m1, m2 \in MsgIds :
          /\ m1 < m2
          /\ sources[m1].st = "stopped"
          /\ sources[m2].st = "started"
          /\ sources[m2].start = clock[sources[m2].ctx]
          /\ sources[m2].start > 0

\* C6: a chunk that is scheduled while the clock has not passed the cursor starts
\* at the cursor, one scheduled after the clock has passed it starts at the
\* current time; the cursor then is the start plus the duration, so chunks
\* scheduled in immediate succession play back to back
C6_EnqueueSchedule ==
    [][ \A m \in MsgIds :
          (Enqueues(m) /\ ~msgs[m].interrupted) =>
            LET now == clock[msgs[m].ctx] IN
             /\ sources'[m].st = "started"
             /\ sources'[m].dur = msgs[m].dur
             /\ now <= nextStartTimeRef => sources'[m].start = nextStartTimeRef
             /\ now > nextStartTimeRef => sources'[m].start = now
             /\ nextStartTimeRef' = sources'[m].start + msgs[m].dur
             /\ scheduledSourcesRef' = scheduledSourcesRef \cup {m}
      ]_vars

\* three chunks of durations d1, d2, d3 are scheduled at t, t+d1, t+d1+d2
C6_Witness ==
    /\ \A m \in 1..3 : sources[m].st = "started"
    /\ sources[1].dur # sources[2].dur
    /\ sources[2].start = sources[1].start + sources[1].dur
    /\ sources[3].start = sources[2].start + sources[2].dur
    /\ nextStartTimeRef = sources[3].start + sources[3].dur

\* a step in which an audio payload raises in the try block of onmessage, of a
\* message that carries no interrupted flag
DropsChunk ==
    \/ \E i \in Ids : outputContextRef # 0 /\ onmessage(i, "bad64", 0, FALSE, MaxMsgs)
    \/ \E m \in MsgIds : decoded(m) /\ msgs[m].audio = "badpcm" /\ ~msgs[m].interrupted

\* C10: a chunk that fails to decode changes neither the status nor the session
\* nor the set of scheduled sources nor the cursor, and a well-formed chunk is
\* scheduled whatever was dropped before it
C10_BadChunkDropped ==
    [][ /\ DropsChunk =>
              UNCHANGED <<status, isActive, session, sessionRef, outputContextRef,
                          scheduledSourcesRef, nextStartTimeRef, sources>>
        /\ \A m \in MsgIds :
              (Enqueues(m) /\ ~msgs[m].interrupted) => m \in scheduledSourcesRef'
      ]_vars

\* a chunk was dropped, the session is still connected and a later chunk is
\* scheduled
C10_Witness ==
    /\ status = "connected"
    /\ \E m1, m2 \in 1..Len(msgs) :
          /\ m1 < m2
          /\ msgs[m1].st = "dropped"
          /\ sources[m2].st = "started"
          /\ m2 \in scheduledSourcesRef

(***************************************************************************)
(* Properties of the failure and teardown paths.                           *)
(***************************************************************************)

\* a step in which ai.live.connect of invocation i throws or sessionPromise rejects
ConnectFails(i) == promise[i] # promise'[i] /\ promise'[i] \in {"threw", "rejected"}

\* invocation i holds no device: its stream is stopped, its contexts are closed
Released(i) ==
    /\ stream[i] # "live"
    /\ inputCtx[i] # "running"
    /\ outputCtx[i] # "running"

\* C7: when the connect call throws or its promise rejects, the status becomes
\* error and the stream and both contexts of that startSession are released
C7_ConnectFailureReleases ==
    [][ \A i \in Ids : (mounted /\ ConnectFails(i)) => (status' = "error" /\ Released(i)') ]_vars

\* C8: onclose has the effect of stopSession; onerror has the effect of
\* stopSession and leaves the status error with a message; and the status error
\* is changed by no later event of the session, only by the user
C8_CloseAndErrorStop ==
    [][ mounted =>
          /\ \A i \in Ids : onclose(i, NoFault) =>
                /\ Cleared'
                /\ \A j \in Ids : Released(j)'
                /\ status # "error" => status' = "disconnected"
          /\ \A i \in Ids : onerror(i, NoFault) =>
                /\ Cleared'
                /\ \A j \in Ids : Released(j)'
                /\ status' = "error"
                /\ errorMessage' # "null"
          /\ (status = "error" /\ status' # "error") => (StartInvoked \/ UserStop)
      ]_vars

\* the devices that the refs hold
Held ==
    {<<"stream", streamRef>>, <<"source", sourceRef>>, <<"processor", processorRef>>,
     <<"inputCtx", inputContextRef>>, <<"outputCtx", outputContextRef>>}
        \ {<<k, 0>> : k \in {"stream", "source", "processor", "inputCtx", "outputCtx"}}

\* the device h is live
Live(h) ==
    CASE h[1] = "stream" -> stream[h[2]] = "live"
      [] h[1] = "source" -> source[h[2]] = "connected"
      [] h[1] = "processor" -> processor[h[2]] = "connected"
      [] h[1] = "inputCtx" -> inputCtx[h[2]] = "running"
      [] h[1] = "outputCtx" -> outputCtx[h[2]] = "running"

\* a step in which the user stops the session while a release step may raise
FaultyStop == ClickStop(Faults) \/ Unmount(Faults)

\* C9: whichever single release step of stopSession raises, every other device
\* that the refs held is released, every ref is null and the status is
\* disconnected
C9_TeardownCompletes ==
    [][ FaultyStop =>
          /\ Cardinality({h \in Held : Live(h)'}) <= 1
          /\ Cleared'
          /\ status' = "disconnected"
      ]_vars

(***************************************************************************)
(* Properties of the start attempts.                                       *)
(***************************************************************************)

\* getUserMedia of invocation i was refused: startSession has left its try block
\* without a stream
Denied(i) == pc[i] = "done" /\ stream[i] = "none"

\* C11: when getUserMedia is refused the catch of startSession sets the status
\* error with a message; ai.live.connect is never called for that invocation, so
\* it has no remote session and no sessionPromise and its onopen never runs; and
\* the status is not connected for as long as it is the latest invocation
C11_DeniedNeverConnects ==
    [][ \A i \in Ids :
          /\ (mounted /\ MicDenied(i)) => (status' = "error" /\ errorMessage' # "null")
          /\ Denied(i)' =>
                /\ session'[i] = "none"
                /\ promise'[i] = "none"
                /\ ~onopen(i)
                /\ starts' = i => status' # "connected"
      ]_vars

\* the invocations that hold a running input context, a running output context,
\* a live stream, a connected framing processor, an unclosed remote session
LiveOf(tbl, v) == {i \in Ids : tbl[i] \in v}

\* C12: at most one input context, one stream, one processor, one output context
\* and one remote session are live at any time; startSession never replaces a ref
\* whose context is still running
C12_OneChain ==
    /\ Cardinality(LiveOf(inputCtx, {"running"})) <= 1
    /\ Cardinality(LiveOf(stream, {"live"})) <= 1
    /\ Cardinality(LiveOf(processor, {"connected"})) <= 1
    /\ Cardinality(LiveOf(outputCtx, {"running"})) <= 1
    /\ Cardinality(LiveOf(session, {"connecting", "open"})) <= 1

(***************************************************************************)
(* Properties of the inbound messages under interleaving.                  *)
(***************************************************************************)

\* the handler of message k has run its interruption branch
Handled(k) == msgs[k].st \in {"done", "dropped"} /\ msgs[k].interrupted

Flagged(k) == k \in 1..Len(msgs) /\ msgs[k].interrupted

\* C16: of two chunks of one session that are both scheduled, with no
\* interruption from the arrival of the first to that of the second, the one that
\* arrived first starts first, and ends before the other starts
C16_ArrivalOrder ==
    \A m1, m2 \in MsgIds :
        ( /\ m1 < m2
          /\ sources[m1].st = "started"
          /\ sources[m2].st = "started"
          /\ sources[m1].ctx = sources[m2].ctx
          /\ \A k \in m1..m2 : ~Flagged(k) ) =>
            /\ sources[m1].start < sources[m2].start
            /\ sources[m1].start + sources[m1].dur <= sources[m2].start

\* two chunks are scheduled back to back, and a third, which arrived after the
\* clock had passed the cursor, after a gap
C16_Witness ==
    /\ \A m \in 1..3 : sources[m].st = "started" /\ ~Flagged(m)
    /\ sources[2].start = sources[1].start + sources[1].dur
    /\ sources[3].start > sources[2].start + sources[2].dur

(***************************************************************************)
(* Properties of the outbound frames.                                      *)
(***************************************************************************)

\* C17: the frames handed to sendRealtimeInput of a session are in the order in
\* which the processor delivered them, each of them was delivered, and no frame
\* is handed over twice, to the same or to another session
C17_CaptureOrder ==
    /\ \A i \in Ids : \A a, b \in 1..Len(sent[i]) : a < b => sent[i][a] < sent[i][b]
    /\ \A i \in Ids : \A a \in 1..Len(sent[i]) : sent[i][a] \in 1..captured
    /\ \A i, j \in Ids : \A a \in 1..Len(sent[i]), b \in 1..Len(sent[j]) :
          i # j => sent[i][a] # sent[j][b]

\* three frames were sent on one session
C17_Witness == \E i \in Ids : Len(sent[i]) = 3

\* stopSession has run and startSession has not been entered since
AfterStop == starts > 0 /\ inputContextRef = 0 /\ outputContextRef = 0

\* C15: after stopSession, and until the next startSession, the handlers that are
\* still delivered or still pending find the refs released and do nothing: no
\* source is started or added to the set, the cursor stays as stopSession left
\* it, and no frame is handed to sendRealtimeInput
C15_NothingAfterStop ==
    [][ AfterStop =>
          /\ UNCHANGED <<scheduledSourcesRef, nextStartTimeRef>>
          /\ \A m \in MsgIds : sources'[m].st = "started" => sources[m].st = "started"
          /\ sent' = sent
      ]_vars

(***************************************************************************)
(* Properties of the cursor and of the set of scheduled sources.           *)
(***************************************************************************)

\* a step in which stopSession runs, whoever calls it; its output teardown is the
\* scheduler's shutdown, which interrupts (stops and clears the sources, resets
\* the cursor) before it closes the output context
Shutdown ==
    \/ UserStop
    \/ \E i \in Ids : onclose(i, NoFault) \/ onerror(i, NoFault)

\* C18: the cursor never decreases, except that the interruption branch of
\* onmessage and the interruption that stopSession performs reset it to 0:
\* scheduling a chunk, the end of a source, a chunk that fails to decode and a
\* captured frame never lower it
C18_CursorMonotonic ==
    [][ /\ nextStartTimeRef' < nextStartTimeRef =>
              (nextStartTimeRef' = 0 /\ (Interrupts \/ Shutdown))
        /\ ( \/ \E m \in MsgIds : onended(m) \/ (Enqueues(m) /\ ~msgs[m].interrupted)
             \/ DropsChunk
             \/ captured' # captured ) => nextStartTimeRef' >= nextStartTimeRef
      ]_vars

\* the cursor was reset by an interruption, which stopped a source, and has
\* advanced again past the clock
C18_Witness ==
    \E m, k \in 1..Len(msgs) :
        /\ m < k
        /\ Handled(k)
        /\ sources[m].st = "stopped"
        /\ outputContextRef # 0
        /\ nextStartTimeRef > clock[outputContextRef]

\* C19: the set holds exactly the sources that were started and have neither been
\* stopped nor had their ended event delivered
C19_SetIsActiveHandles ==
    scheduledSourcesRef = {m \in MsgIds : sources[m].st = "started"}

\* of three sources one has ended and left the set, one was stopped by an
\* interruption, and one is scheduled
C19_Witness ==
    \E m1, m2, m3 \in MsgIds :
        /\ sources[m1].st = "ended"
        /\ sources[m2].st = "stopped"
        /\ sources[m3].st = "started"
        /\ scheduledSourcesRef = {m3}

\* the time at which the source m of the set reaches its end
EndOf(m) == sources[m].start + sources[m].dur

\* C20: in a session that is neither interrupted nor stopped every source that
\* is scheduled leaves the set, by its own onended and not before its duration
\* has elapsed; chunk B (0.3 s) scheduled while chunk A (0.5 s) is in the set
\* makes two handles that end 0.8 s after A's start; and the set is empty once
\* the clock has passed the cursor and the due ended events are delivered
C20_AllComplete ==
    /\ [][ /\ \A m \in scheduledSourcesRef :
                 m \notin scheduledSourcesRef' => (onended(m) /\ clock[sources[m].ctx] >= EndOf(m))
           /\ ( /\ Enqueues(2)
                /\ 1 \in scheduledSourcesRef
                /\ sources[1].dur = 5
                /\ msgs[2].dur = 3
                /\ clock[msgs[2].ctx] <= nextStartTimeRef ) =>
                 /\ scheduledSourcesRef' = {1, 2}
                 /\ EndOf(2)' = sources[1].start + 8
                 /\ nextStartTimeRef' = sources[1].start + 8
         ]_vars
    /\ [](\A m \in scheduledSourcesRef :
             sources[m].st = "started" /\ EndOf(m) <= nextStartTimeRef)
    /\ \A m \in MsgIds :
          (m \in scheduledSourcesRef) ~> (sources[m].st = "ended" /\ m \notin scheduledSourcesRef)

\* A and B were scheduled back to back at time 0 and 0.8 s later both have ended
C20_Witness ==
    /\ Len(msgs) = 2
    /\ sources[1].st = "ended"
    /\ sources[2].st = "ended"
    /\ scheduledSourcesRef = {}
    /\ nextStartTimeRef = 8
    /\ \E i \in Ids : clock[i] = 8
(***************************************************************************)
(* Properties of the teardown order and of the frames around it.           *)
(***************************************************************************)

\* a step in which a frame is handed to sendRealtimeInput of session i
Sends(i) == sent'[i] # sent[i]

\* the remote session of invocation i has been closed: by session.close(), by
\* the remote end, or after its error
SessionClosed(i) == session[i] \in {"closing", "closed", "errored"}

\* a step that releases a capture device of invocation i
TearsDown(i) ==
    \/ stream[i] = "live" /\ stream'[i] # "live"
    \/ source[i] = "connected" /\ source'[i] # "connected"
    \/ processor[i] = "connected" /\ processor'[i] # "connected"
    \/ inputCtx[i] = "running" /\ inputCtx'[i] # "running"

\* C21: stopSession closes the session that sessionRef holds before it releases
\* the capture devices, and no frame is handed to sendRealtimeInput of a session
\* that has been closed, however the audioprocess events and the reactions of
\* sessionPromise interleave with stopSession
C21_CloseBeforeTeardown ==
    [][ /\ (\E i \in Ids : TearsDown(i)) =>
              /\ sessionRef' = 0
              /\ sessionRef # 0 => session'[sessionRef] # "open"
        /\ \A i \in Ids : Sends(i) => ~SessionClosed(i)
      ]_vars
\* C22: a frame that the processor delivers while sessionPromise is pending is
\* dropped: it is not handed to sendRealtimeInput, neither then nor when the
\* promise resolves
C22_PreconnectDropped ==
    [][ \A i \in Ids : \A k \in 1..Len(thens[i]) : \A a \in 1..Len(sent'[i]) :
            sent'[i][a] # thens[i][k]
      ]_vars
(***************************************************************************)
(* Properties of the restarts.                                             *)
(***************************************************************************)

\* a step in which invocation i calls ai.live.connect
Connects(i) == promise[i] = "none" /\ promise'[i] # "none"

\* a startSession invocation stands at its await of getUserMedia
StartPending == \E i \in Ids : pc[i] = "getUserMedia"

\* C23: nothing is retried: the status becomes connecting only when the user's
\* control enters startSession; ai.live.connect is called only by a startSession
\* invocation that the user made, once, and a session that has left connecting
\* never connects again; so when the status is error or disconnected and no
\* startSession is under way, no connect is initiated and the status does not
\* become connecting until the user starts
C23_NoAutoRetry ==
    [][ /\ (status' = "connecting" /\ status # "connecting") => StartInvoked
        /\ StartInvoked => (CanStart /\ status' = "connecting")
        /\ \A i \in Ids : Connects(i) => (i <= starts /\ pc[i] = "getUserMedia")
        /\ \A i \in Ids : session'[i] = "connecting" => session[i] \in {"none", "connecting"}
        /\ (status \in {"error", "disconnected"} /\ ~StartPending /\ ~StartInvoked) =>
              /\ \A i \in Ids : ~Connects(i)
              /\ status' # "connecting"
      ]_vars

\* the session failed and was closed, the status has been set to error and to
\* disconnected by its callbacks, and no second invocation was made
C23_Witness ==
    /\ mounted
    /\ starts = 1
    /\ status = "disconnected"
    /\ errorMessage = "connection"
    /\ session[1] = "closed"
    /\ promise[1] = "rejected"
\* a step in which a callback of the remote session of invocation i runs
CallbackOf(i) ==
    \/ onopen(i)
    \/ onclose(i, NoFault)
    \/ onerror(i, NoFault)
    \/ \E p \in Payloads : onmessage(i, p[1], p[2], p[3], MaxMsgs)

\* C24: a callback of the session of an earlier invocation that is delivered
\* after startSession has been entered again changes neither the status nor
\* isActive, releases no device of the latest invocation and leaves the set of
\* scheduled sources as it is
C24_NoCrossSession ==
    [][ \A i \in Ids : (i < starts /\ CallbackOf(i)) =>
          /\ UNCHANGED <<status, isActive, scheduledSourcesRef>>
          /\ inputCtx'[starts] = inputCtx[starts]
          /\ outputCtx'[starts] = outputCtx[starts]
          /\ stream'[starts] = stream[starts]
          /\ source'[starts] = source[starts]
          /\ processor'[starts] = processor[starts]
      ]_vars
(***************************************************************************)
(* Properties of a message that carries audio and the interrupted flag.    *)
(***************************************************************************)

\* C25: the handler of a message that carries an audio payload and the
\* interrupted flag schedules the chunk and then runs the interruption branch:
\* when it returns, every source that was in the set and the source of this very
\* chunk are stopped, the set is empty and the cursor is 0
C25_AudioThenInterrupt ==
    [][ \A m \in MsgIds : (decoded(m) /\ msgs[m].interrupted) =>
          /\ scheduledSourcesRef' = {}
          /\ nextStartTimeRef' = 0
          /\ \A k \in scheduledSourcesRef : sources'[k].st = "stopped"
          /\ msgs'[m].st = "done" => sources'[m].st = "stopped"
          /\ msgs'[m].st = "dropped" => sources'[m] = sources[m]
      ]_vars

\* a chunk was playing when a message with audio and the interrupted flag was
\* handled: both sources are stopped, nothing is scheduled, the cursor is at 0
C25_Witness ==
    \E m, k \in 1..Len(msgs) :
        /\ m < k
        /\ msgs[k].st = "done"
        /\ msgs[k].interrupted
        /\ sources[k].st = "stopped"
        /\ sources[m].st = "stopped"
        /\ ~msgs[m].interrupted
        /\ scheduledSourcesRef = {}
        /\ nextStartTimeRef = 0
        /\ outputContextRef # 0
(***************************************************************************)
(* Properties of the control.                                              *)
(***************************************************************************)

\* C26: isActive is true exactly when the status is connected, so the control
\* invokes stopSession exactly in connected and startSession in disconnected and
\* error, and is disabled in connecting
C26_ActiveIffConnected ==
    /\ isActive <=> (status = "connected")
    /\ CanStop <=> (mounted /\ status = "connected")
    /\ CanStart <=> (mounted /\ status \in {"disconnected", "error"})
(***************************************************************************)
(* Properties of the chat view.                                            *)
(***************************************************************************)

\* the messages after the welcome message come in pairs, a user message and the
\* model message that answers it, the last pair lacking its answer while loading
Paired ==
    /\ messages[1] = WelcomeMsg
    /\ \A k \in 2..Len(messages) :
          messages[k].role = (IF k % 2 = 0 THEN "user" ELSE "model")
    /\ (Len(messages) % 2 = 0) <=> isLoading

\* C27: at most one generateText call is in flight, and one is exactly while
\* isLoading; a send while isLoading, or with neither text nor image, changes
\* nothing; an accepted send appends one user message and starts one request; its
\* settlement appends one model message, the response or the error message,
\* right after that user message, and clears isLoading, which every accepted
\* send leads to
C27_OneRequestInFlight ==
    /\ [](Len(requests) <= 1 /\ (isLoading <=> Len(requests) = 1) /\ Paired)
    /\ [][ /\ (invoked' # invoked /\ Ignored) =>
                 UNCHANGED <<messages, inputValue, selectedImage, isLoading, requests>>
           /\ (invoked' # invoked /\ ~Ignored) =>
                 /\ Len(messages') = Len(messages) + 1
                 /\ messages'[Len(messages')].role = "user"
                 /\ isLoading'
           /\ Len(requests') < Len(requests) =>
                 /\ Len(messages') = Len(messages) + 1
                 /\ messages[Len(messages)].role = "user"
                 /\ messages'[Len(messages')].role = "model"
                 /\ messages'[Len(messages')].text \in {"response", "error"}
                 /\ ~isLoading'
           /\ \A k \in 1..Len(messages) : k <= Len(messages') /\ messages'[k] = messages[k]
         ]_vars
    /\ isLoading ~> ~isLoading

\* two sends were accepted, one of them of an image without text, one answered
\* by a response and one by the error message, and a third invocation was ignored
C27_Witness ==
    /\ invoked = 3
    /\ Len(messages) = 5
    /\ ~isLoading
    /\ messages[3].isError # messages[5].isError
    /\ \E k \in {2, 4} : messages[k].image = "dataUri" /\ Trim(messages[k].text) = ""
====
